---- MODULE Spec2Model ----
(***************************************************************************)
(* Model of two scripts of the Envoy AI Gateway repository:                *)
(*                                                                         *)
(*   tests/internal/testopeninference/openai_proxy.py                      *)
(*       the FastAPI proxy that forwards OpenAI-compatible requests to an  *)
(*       upstream client and relays buffered or server-sent-event          *)
(*       responses;                                                        *)
(*   examples/mcp/agent.py                                                 *)
(*       the command line agent runner.                                    *)
(*                                                                         *)
(* Each inbound request is a coroutine; its position (pc) changes at the   *)
(* awaits of the code: the upstream call, and every chunk of the upstream  *)
(* stream.  What the upstream answers is an input of the model.            *)
(***************************************************************************)
EXTENDS Integers, Sequences, FiniteSets, TLC

VARIABLES
    pc,         \* pc[r]: position of the coroutine handling request r
    request,    \* request[r]: the inbound request (route, body, headers)
    calls,      \* calls[r]: upstream operations invoked for r, in order
    upstream,   \* upstream[r]: what the upstream produced for r so far
    response,   \* response[r]: what the caller of r has been sent so far
    apc,        \* agent runner: position in agent.py
    cli,        \* agent runner: flags and environment given to the process
    args,       \* agent runner: argparse result
    session,    \* agent runner: state of the tool-server session
    modelCalls, \* agent runner: number of Runner.run model conversations
    exit        \* agent runner: how the process ended

proxyVars == <<pc, request, calls, upstream, response>>
agentVars == <<apc, cli, args, session, modelCalls, exit>>
vars == <<pc, request, calls, upstream, response,
          apc, cli, args, session, modelCalls, exit>>

-----------------------------------------------------------------------------
(* Bounds *)

\* number of requests handled concurrently
NumReqs == 2
\* largest number of chunks one upstream stream delivers
MaxChunks == 2

Reqs == 1..NumReqs

-----------------------------------------------------------------------------
(* Python values *)

\* Python's None, as returned by dict.get / Headers.get / os.getenv
None == "<None>"

\* the default status of starlette Response / StreamingResponse
StatusOK == 200
\* status_code=500 of the generic error response
StatusInternalError == 500

\* The value of the JSON body's "stream" member, by its JSON literal;
\* "<absent>" when the object has no such member.
StreamLiterals ==
    {"<absent>", "true", "false", "null", "0", "1", "\"\"", "\"false\"", "[]"}

\* Truthy with the flag compared to the boolean true (`is True`)
TruthyIsTrue(lit) == lit = "true"

\* bool(x) of Python for the literals above, after json parsing
Truthy(lit) == lit \in {"true", "1", "\"false\""}

\* request_data.get('stream', False), then used as the condition of `if`
GetStream(body) == Truthy(body.stream)

\* Inbound JSON bodies.  kind: what the bytes parse to.  An object carries
\* its "stream" member, some other members (payload) and possibly a member
\* named "extra_headers".
ObjectBodies ==
    [kind : {"object"}, stream : StreamLiterals,
     payload : {"p1", "p2"}, extra_headers : BOOLEAN]

NonObjectBody(k) ==
    [kind |-> k, stream |-> "<absent>", payload |-> "p1", extra_headers |-> FALSE]

Bodies == ObjectBodies \cup
          {NonObjectBody(k) : k \in {"malformed", "array", "null"}}

\* Inbound header sets: (name, value) pairs
CassetteHeader == "X-Cassette-Name"
CassetteValues == {"", "c1", "c2"}
HeaderSets == {{}} \cup {{<<CassetteHeader, v>>} : v \in CassetteValues}

\* request.headers.get(name)
HeadersGet(headers, name) ==
    IF \E p \in headers : p[1] = name
    THEN (CHOOSE p \in headers : p[1] = name)[2]
    ELSE None

-----------------------------------------------------------------------------
(* Routes *)

Routes == {
    "/v1/chat/completions",
    "/openai/deployments/{deployment}/chat/completions",
    "/v1/completions",
    "/openai/deployments/{deployment}/completions",
    "/v1/embeddings",
    "/openai/deployments/{deployment}/embeddings",
    "/v1/images/generations",
    "/openai/deployments/{deployment}/images/generations" }

\* client_method each route handler passes to handle_openai_request
ClientMethod(route) ==
    CASE route \in {"/v1/chat/completions",
                    "/openai/deployments/{deployment}/chat/completions"}
            -> "chat.completions.create"
      [] route \in {"/v1/completions",
                    "/openai/deployments/{deployment}/completions"}
            -> "completions.create"
      [] route \in {"/v1/embeddings",
                    "/openai/deployments/{deployment}/embeddings"}
            -> "embeddings.create"
      [] OTHER -> "images.generate"

\* Route handlers that parse the body themselves, before calling
\* handle_openai_request, and pass is_streaming.
ReadsStreamFlag(route) ==
    route \in {"/v1/chat/completions",
               "/openai/deployments/{deployment}/chat/completions",
               "/v1/completions",
               "/openai/deployments/{deployment}/completions"}

-----------------------------------------------------------------------------
(* Contents, exceptions and responses *)

\* A piece of content: text produced by the proxy or by the upstream.
\* src is the request whose upstream call produced it, 0 for text of the
\* proxy or the web framework itself; seq numbers the chunks of a stream.
Content(kind, src, seq, text) ==
    [kind |-> kind, src |-> src, seq |-> seq, text |-> text]

NoContent == Content("none", 0, 0, "")

\* objects the upstream client returns
UpstreamResult(r) == Content("result", r, 0, "")
UpstreamChunk(r, i) == Content("chunk", r, i, "")

\* x.model_dump_json(): the JSON text of an upstream object
ModelDumpJson(x) == Content("json", x.src, x.seq, x.kind)

\* f"data: {chunk_json}\n\n"
DataFrame(chunk_json) == [prefix |-> "data: ", data |-> chunk_json, suffix |-> "\n\n"]
\* "data: [DONE]\n\n"
DoneFrame == [prefix |-> "data: ", data |-> Content("literal", 0, 0, "[DONE]"),
              suffix |-> "\n\n"]

\* A raised exception.  has_response: hasattr(e, 'response') and
\* hasattr(e.response, 'status_code').
PlainError(type, msg) ==
    [type |-> type, msg |-> msg, has_response |-> FALSE,
     status |-> 0, content |-> NoContent, headers |-> {}]

ErrorStatuses == {429, 500}

APIStatusError(r, status) ==
    [type |-> "APIStatusError", msg |-> "Error code", has_response |-> TRUE,
     status |-> status,
     content |-> Content("upstream_error", r, status, ""),
     headers |-> {<<"content-type", "application/json">>}]

UpstreamErrors(r) ==
    {APIStatusError(r, s) : s \in ErrorStatuses}
        \cup {PlainError("APIConnectionError", "Connection error.")}

NoError == PlainError("none", "")

\* What the caller has been sent.
\*   state: "none" nothing yet; "started" head sent, body still open;
\*          "complete" body ended normally; "aborted" body cut by an
\*          exception raised while it was being produced.
\*   by:    "handler" the normal return of handle_openai_request,
\*          "except" its except block, "framework" the web framework's
\*          answer to an exception that left the route handler.
NoResponse ==
    [state |-> "none", by |-> "none", status |-> 0, media_type |-> "",
     content |-> NoContent, headers |-> {}, frames |-> <<>>]

\* the except block of handle_openai_request
ExceptResponse(e) ==
    IF e.has_response
    THEN [state |-> "complete", by |-> "except", status |-> e.status,
          media_type |-> "", content |-> e.content, headers |-> e.headers,
          frames |-> <<>>]
    ELSE [state |-> "complete", by |-> "except", status |-> StatusInternalError,
          media_type |-> "application/json",
          content |-> Content("error_envelope", 0, 0, e.msg),
          headers |-> {}, frames |-> <<>>]

\* An exception that leaves the route handler before any response started:
\* the framework answers 500 with the plain text "Internal Server Error".
FrameworkErrorResponse ==
    [state |-> "complete", by |-> "framework", status |-> StatusInternalError,
     media_type |-> "text/plain",
     content |-> Content("literal", 0, 0, "Internal Server Error"),
     headers |-> {}, frames |-> <<>>]

\* JsonResponse with the result's repr as content instead of its JSON text
JsonResponseRepr(result) ==
    [state |-> "complete", by |-> "handler", status |-> StatusOK,
     media_type |-> "application/json",
     content |-> Content("repr", result.src, result.seq, result.kind),
     headers |-> {}, frames |-> <<>>]

\* Response(content=response_json, media_type="application/json")
JsonResponse(result) ==
    [state |-> "complete", by |-> "handler", status |-> StatusOK,
     media_type |-> "application/json", content |-> ModelDumpJson(result),
     headers |-> {}, frames |-> <<>>]

\* StreamingResponse(stream_response(), media_type="text/event-stream"),
\* head sent, generator not yet advanced
StreamingResponse ==
    [state |-> "started", by |-> "handler", status |-> StatusOK,
     media_type |-> "text/event-stream", content |-> NoContent,
     headers |-> {}, frames |-> <<>>]

-----------------------------------------------------------------------------
(* handle_openai_request and the route handlers *)

\* ExtraHeaders without the `if cassette_name` guard
ExtraHeadersUnguarded(headers) ==
    {<<CassetteHeader, HeadersGet(headers, CassetteHeader)>>}

\* cassette_name = request.headers.get('X-Cassette-Name')
\* extra_headers = {"X-Cassette-Name": cassette_name} if cassette_name else {}
ExtraHeaders(headers) ==
    LET cassette_name == HeadersGet(headers, CassetteHeader)
    IN  IF cassette_name # None /\ cassette_name # ""
        THEN {<<CassetteHeader, cassette_name>>}
        ELSE {}

\* The route handler itself raises, outside the try block of
\* handle_openai_request: `await request.json()` on bytes that are no JSON,
\* or `request_data.get` on a value that is no dict.
RouteHandlerRaises(route, body) ==
    ReadsStreamFlag(route) /\ body.kind # "object"

\* is_streaming as handle_openai_request receives it (default False)
IsStreaming(route, body) ==
    IF ReadsStreamFlag(route) THEN GetStream(body) ELSE FALSE

\* `request_data = await request.json()` inside the try block
ParseError(body) ==
    IF body.kind = "malformed"
    THEN PlainError("JSONDecodeError", "Expecting value")
    ELSE NoError

\* Evaluating client_method(**request_data, extra_headers=extra_headers)
\* raises before the method is entered when request_data is no mapping, or
\* when it has a key "extra_headers" of its own.
CallError(body) ==
    IF body.kind # "object"
    THEN PlainError("TypeError", "argument after ** must be a mapping")
    ELSE IF body.extra_headers
    THEN PlainError("TypeError",
                    "got multiple values for keyword argument 'extra_headers'")
    ELSE NoError

\* one invocation of an upstream operation
UpstreamCall(route, body, headers) ==
    [op |-> ClientMethod(route), kwargs |-> body,
     extra_headers |-> ExtraHeaders(headers)]

NoRequest == [route |-> "", body |-> NonObjectBody("none"), headers |-> {}]

NoUpstream == [state |-> "none", chunks |-> <<>>, error |-> NoError]

\* the body of a started response is cut by an exception
Aborted(resp) == [resp EXCEPT !.state = "aborted"]

\* A request arrives: the route handler and handle_openai_request run up to
\* their first await on the upstream, or to the response they return.
Receive(r, route, body, headers) ==
    /\ pc[r] = "idle"
    /\ request' = [request EXCEPT ![r] =
                      [route |-> route, body |-> body, headers |-> headers]]
    /\ IF RouteHandlerRaises(route, body)
       THEN /\ response' = [response EXCEPT ![r] = FrameworkErrorResponse]
            /\ pc' = [pc EXCEPT ![r] = "done"]
            /\ UNCHANGED <<calls, upstream>>
       ELSE IF ~ReadsStreamFlag(route) /\ ParseError(body) # NoError
       THEN /\ response' = [response EXCEPT ![r] = ExceptResponse(ParseError(body))]
            /\ pc' = [pc EXCEPT ![r] = "done"]
            /\ UNCHANGED <<calls, upstream>>
       ELSE IF IsStreaming(route, body)
       THEN /\ response' = [response EXCEPT ![r] = StreamingResponse]
            /\ pc' = [pc EXCEPT ![r] = "stream_response"]
            /\ UNCHANGED <<calls, upstream>>
       ELSE IF CallError(body) # NoError
       THEN /\ response' = [response EXCEPT ![r] = ExceptResponse(CallError(body))]
            /\ pc' = [pc EXCEPT ![r] = "done"]
            /\ UNCHANGED <<calls, upstream>>
       ELSE /\ calls' = [calls EXCEPT ![r] =
                            Append(@, UpstreamCall(route, body, headers))]
            /\ upstream' = [upstream EXCEPT ![r].state = "called"]
            /\ pc' = [pc EXCEPT ![r] = "await_call"]
            /\ UNCHANGED response
    /\ UNCHANGED agentVars

\* response = await client_method(...) returns; the result is dumped and
\* returned as one JSON body.
UpstreamReturns(r) ==
    /\ pc[r] = "await_call"
    /\ upstream' = [upstream EXCEPT ![r].state = "returned"]
    /\ response' = [response EXCEPT ![r] = JsonResponse(UpstreamResult(r))]
    /\ pc' = [pc EXCEPT ![r] = "done"]
    /\ UNCHANGED <<request, calls>>
    /\ UNCHANGED agentVars

\* response = await client_method(...) raises e, inside the try block
UpstreamRaises(r, e) ==
    /\ pc[r] = "await_call"
    /\ upstream' = [upstream EXCEPT ![r].state = "raised", ![r].error = e]
    /\ response' = [response EXCEPT ![r] = ExceptResponse(e)]
    /\ pc' = [pc EXCEPT ![r] = "done"]
    /\ UNCHANGED <<request, calls>>
    /\ UNCHANGED agentVars

\* StreamStart with extra_headers kept in a module-level variable that the
\* handler of any request that arrived overwrites
StreamStartSharedHeaders(r) ==
    /\ pc[r] = "stream_response"
    /\ \E q \in Reqs :
          /\ pc[q] # "idle"
          /\ calls' = [calls EXCEPT ![r] =
                          Append(@, UpstreamCall(request[r].route,
                                                 request[r].body,
                                                 request[q].headers))]
    /\ upstream' = [upstream EXCEPT ![r].state = "called"]
    /\ pc' = [pc EXCEPT ![r] = "await_stream"]
    /\ UNCHANGED <<request, response>>
    /\ UNCHANGED agentVars

\* The framework advances stream_response() for the first time, after the
\* head of the response was sent: stream = await client_method(...)
StreamStart(r) ==
    /\ pc[r] = "stream_response"
    /\ IF CallError(request[r].body) # NoError
       THEN /\ response' = [response EXCEPT ![r] = Aborted(@)]
            /\ pc' = [pc EXCEPT ![r] = "done"]
            /\ UNCHANGED <<calls, upstream>>
       ELSE /\ calls' = [calls EXCEPT ![r] =
                            Append(@, UpstreamCall(request[r].route,
                                                   request[r].body,
                                                   request[r].headers))]
            /\ upstream' = [upstream EXCEPT ![r].state = "called"]
            /\ pc' = [pc EXCEPT ![r] = "await_stream"]
            /\ UNCHANGED response
    /\ UNCHANGED request
    /\ UNCHANGED agentVars

\* stream = await client_method(...) returns the upstream stream
StreamOpens(r) ==
    /\ pc[r] = "await_stream"
    /\ upstream' = [upstream EXCEPT ![r].state = "open"]
    /\ pc' = [pc EXCEPT ![r] = "iterating"]
    /\ UNCHANGED <<request, calls, response>>
    /\ UNCHANGED agentVars

\* stream = await client_method(...) raises e inside the generator
StreamCallRaises(r, e) ==
    /\ pc[r] = "await_stream"
    /\ upstream' = [upstream EXCEPT ![r].state = "failed", ![r].error = e]
    /\ response' = [response EXCEPT ![r] = Aborted(@)]
    /\ pc' = [pc EXCEPT ![r] = "done"]
    /\ UNCHANGED <<request, calls>>
    /\ UNCHANGED agentVars

\* StreamChunk with the new frame put before the frames already sent
StreamChunkPrepends(r) ==
    /\ pc[r] = "iterating"
    /\ Len(upstream[r].chunks) < MaxChunks
    /\ LET chunk == UpstreamChunk(r, Len(upstream[r].chunks) + 1)
       IN  /\ upstream' = [upstream EXCEPT ![r].chunks = Append(@, chunk)]
           /\ response' = [response EXCEPT ![r].frames =
                              <<DataFrame(ModelDumpJson(chunk))>> \o @]
    /\ UNCHANGED <<pc, request, calls>>
    /\ UNCHANGED agentVars

\* async for chunk in stream: the next chunk arrives and its frame is yielded
StreamChunk(r) ==
    /\ pc[r] = "iterating"
    /\ Len(upstream[r].chunks) < MaxChunks
    /\ LET chunk == UpstreamChunk(r, Len(upstream[r].chunks) + 1)
       IN  /\ upstream' = [upstream EXCEPT ![r].chunks = Append(@, chunk)]
           /\ response' = [response EXCEPT ![r].frames =
                              Append(@, DataFrame(ModelDumpJson(chunk)))]
    /\ UNCHANGED <<pc, request, calls>>
    /\ UNCHANGED agentVars

\* the upstream stream is exhausted: yield "data: [DONE]\n\n", and the
\* generator returns
StreamEnds(r) ==
    /\ pc[r] = "iterating"
    /\ upstream' = [upstream EXCEPT ![r].state = "ended"]
    /\ response' = [response EXCEPT ![r].frames = Append(@, DoneFrame),
                                    ![r].state = "complete"]
    /\ pc' = [pc EXCEPT ![r] = "done"]
    /\ UNCHANGED <<request, calls>>
    /\ UNCHANGED agentVars

\* StreamRaises with the sentinel yielded from a `finally` clause
StreamRaisesThenDone(r, e) ==
    /\ pc[r] = "iterating"
    /\ upstream' = [upstream EXCEPT ![r].state = "failed", ![r].error = e]
    /\ response' = [response EXCEPT ![r].frames = Append(@, DoneFrame),
                                    ![r].state = "complete"]
    /\ pc' = [pc EXCEPT ![r] = "done"]
    /\ UNCHANGED <<request, calls>>
    /\ UNCHANGED agentVars

\* the upstream stream raises e while the generator waits for a chunk
StreamRaises(r, e) ==
    /\ pc[r] = "iterating"
    /\ upstream' = [upstream EXCEPT ![r].state = "failed", ![r].error = e]
    /\ response' = [response EXCEPT ![r] = Aborted(@)]
    /\ pc' = [pc EXCEPT ![r] = "done"]
    /\ UNCHANGED <<request, calls>>
    /\ UNCHANGED agentVars

-----------------------------------------------------------------------------
(* examples/mcp/agent.py *)

ModelNames == {"qwen3:4b", "gpt-4o"}
McpUrls == {"http://localhost:1975/mcp", "http://gateway/mcp"}

\* what the process is started with: the --model and --mcp-url flags and the
\* CHAT_MODEL and MCP_URL environment variables, None when not given
CliInputs ==
    [flag_model : ModelNames \cup {None}, env_model : ModelNames \cup {None},
     flag_url : McpUrls \cup {None}, env_url : McpUrls \cup {None}]

\* parser.add_argument("--x", default=os.getenv("X")): the flag when given,
\* else the environment variable, else None
ArgOrEnv(flag, env) == IF flag # None THEN flag ELSE env

Running == [done |-> FALSE, code |-> 0, error |-> ""]
Exited(code, error) == [done |-> TRUE, code |-> code, error |-> error]

\* __main__: parse_args, read the prompt, print the configuration and enter
\* main() through asyncio.run
AgentParseArgs ==
    /\ apc = "parse"
    /\ args' = [model |-> ArgOrEnv(cli.flag_model, cli.env_model),
                mcp_url |-> ArgOrEnv(cli.flag_url, cli.env_url)]
    /\ apc' = "connect"
    /\ UNCHANGED <<cli, session, modelCalls, exit>>
    /\ UNCHANGED proxyVars

\* async with MCPServerStreamableHttp(params={"url": mcp_url, ...}): the
\* session to the tool server opens; then the model and the agent are built
AgentSessionOpens ==
    /\ apc = "connect"
    /\ args.mcp_url # None
    /\ session' = "open"
    /\ apc' = "run"
    /\ UNCHANGED <<cli, args, modelCalls, exit>>
    /\ UNCHANGED proxyVars

\* the session cannot be opened (no URL, or the server does not answer):
\* the exception leaves main() and the process ends
AgentConnectFails ==
    /\ apc = "connect"
    /\ session' = "failed"
    /\ apc' = "exit"
    /\ exit' = Exited(1, "traceback")
    /\ UNCHANGED <<cli, args, modelCalls>>
    /\ UNCHANGED proxyVars

\* result = await Runner.run(...) returns; print(result.final_output)
AgentRunCompletes ==
    /\ apc = "run"
    /\ modelCalls' = modelCalls + 1
    /\ session' = "closed"
    /\ apc' = "exit"
    /\ exit' = Exited(0, "")
    /\ UNCHANGED <<cli, args>>
    /\ UNCHANGED proxyVars

\* await Runner.run(...) raises: the session is closed by the context
\* manager and the exception ends the process
AgentRunFails ==
    /\ apc = "run"
    /\ modelCalls' = modelCalls + 1
    /\ session' = "closed"
    /\ apc' = "exit"
    /\ exit' = Exited(1, "traceback")
    /\ UNCHANGED <<cli, args>>
    /\ UNCHANGED proxyVars

-----------------------------------------------------------------------------
(* Specifications *)

ProxyInit ==
    /\ pc = [r \in Reqs |-> "idle"]
    /\ request = [r \in Reqs |-> NoRequest]
    /\ calls = [r \in Reqs |-> <<>>]
    /\ upstream = [r \in Reqs |-> NoUpstream]
    /\ response = [r \in Reqs |-> NoResponse]

AgentInit ==
    /\ apc = "parse"
    /\ args = [model |-> None, mcp_url |-> None]
    /\ session = "none"
    /\ modelCalls = 0
    /\ exit = Running

\* The proxy handling one request, drawn from all routes, bodies and headers.
Solo == {CHOOSE r \in Reqs : \A q \in Reqs : r <= q}

Init ==
    /\ ProxyInit
    /\ AgentInit
    /\ cli = [flag_model |-> None, env_model |-> None,
              flag_url |-> None, env_url |-> None]

Next ==
    \/ \E r \in Solo, route \in Routes, body \in Bodies, headers \in HeaderSets :
          Receive(r, route, body, headers)
    \/ \E r \in Solo : UpstreamReturns(r)
    \/ \E r \in Solo : \E e \in UpstreamErrors(r) : UpstreamRaises(r, e)
    \/ \E r \in Solo : StreamStart(r)
    \/ \E r \in Solo : StreamOpens(r)
    \/ \E r \in Solo : \E e \in UpstreamErrors(r) : StreamCallRaises(r, e)
    \/ \E r \in Solo : StreamChunk(r)
    \/ \E r \in Solo : StreamEnds(r)
    \/ \E r \in Solo : \E e \in UpstreamErrors(r) : StreamRaises(r, e)

Spec == Init /\ [][Next]_vars

\* The proxy handling NumReqs requests concurrently; the requests are drawn
\* from one streaming and one buffered route, with and without the stream
\* flag and the cassette header.
ConcRoutes == {"/v1/chat/completions", "/v1/embeddings"}
ConcBodies == {b \in ObjectBodies :
                 /\ b.stream \in {"true", "<absent>"}
                 /\ b.payload = "p1"
                 /\ ~b.extra_headers}
ConcHeaderSets == {{}, {<<CassetteHeader, "c1">>}}
ConcErrors(r) == {APIStatusError(r, 429),
                  PlainError("APIConnectionError", "Connection error.")}

NextConc ==
    \/ \E r \in Reqs, route \in ConcRoutes, body \in ConcBodies,
          headers \in ConcHeaderSets :
          Receive(r, route, body, headers)
    \/ \E r \in Reqs : UpstreamReturns(r)
    \/ \E r \in Reqs : \E e \in ConcErrors(r) : UpstreamRaises(r, e)
    \/ \E r \in Reqs : StreamStart(r)
    \/ \E r \in Reqs : StreamOpens(r)
    \/ \E r \in Reqs : \E e \in ConcErrors(r) : StreamCallRaises(r, e)
    \/ \E r \in Reqs : StreamChunk(r)
    \/ \E r \in Reqs : StreamEnds(r)
    \/ \E r \in Reqs : \E e \in ConcErrors(r) : StreamRaises(r, e)

SpecConc == Init /\ [][NextConc]_vars

\* The agent runner, started with every combination of flags and environment.
InitAgent ==
    /\ ProxyInit
    /\ AgentInit
    /\ cli \in CliInputs

NextAgent ==
    \/ AgentParseArgs
    \/ AgentSessionOpens
    \/ AgentConnectFails
    \/ AgentRunCompletes
    \/ AgentRunFails

SpecAgent == InitAgent /\ [][NextAgent]_vars

-----------------------------------------------------------------------------
(* Vocabulary of the properties *)

ChatOrCompletionsRoutes ==
    {"/v1/chat/completions",
     "/openai/deployments/{deployment}/chat/completions",
     "/v1/completions",
     "/openai/deployments/{deployment}/completions"}

\* request r has arrived
Arrived(r) == pc[r] # "idle"

\* request r has been handled to its end
Done(r) == pc[r] = "done"

\* a chat-completions or completions request whose body is an object with
\* "stream": true
StreamTrue(r) ==
    /\ Arrived(r)
    /\ request[r].route \in ChatOrCompletionsRoutes
    /\ request[r].body.kind = "object"
    /\ request[r].body.stream = "true"

\* the response to r is in streaming mode
EventStream(r) == response[r].media_type = "text/event-stream"

\* the 'data: <json>' frames of a sequence of upstream chunks, in order
FramesOf(chunks) ==
    [i \in 1..Len(chunks) |->
        [prefix |-> "data: ",
         data |-> [kind |-> "json", src |-> chunks[i].src,
                   seq |-> chunks[i].seq, text |-> "chunk"],
         suffix |-> "\n\n"]]

Sentinel ==
    [prefix |-> "data: ",
     data |-> [kind |-> "literal", src |-> 0, seq |-> 0, text |-> "[DONE]"],
     suffix |-> "\n\n"]

SentinelCount(frames) == Cardinality({i \in 1..Len(frames) : frames[i] = Sentinel})

-----------------------------------------------------------------------------
(* C1 *)

\* C1, as stated: every handled streaming request (chat-completions or
\* completions route, stream true) has sent one data frame per upstream
\* chunk, in arrival order, then exactly one 'data: [DONE]' frame, and
\* nothing after it.
C1_EveryStreamEndsWithSentinel ==
    \A r \in Reqs :
        (StreamTrue(r) /\ Done(r)) =>
            response[r].frames = FramesOf(upstream[r].chunks) \o <<Sentinel>>

\* C1, amended: at every moment of a streaming request the data frames sent
\* are exactly the frames of the upstream chunks delivered so far, in order;
\* when the upstream stream ends normally they are followed by exactly one
\* 'data: [DONE]' frame, the last frame of the response; when the upstream
\* call or stream fails, no sentinel is sent.
C1_FramesFollowChunks ==
    \A r \in Reqs :
        StreamTrue(r) =>
            IF upstream[r].state = "ended"
            THEN /\ Done(r)
                 /\ response[r].frames = FramesOf(upstream[r].chunks) \o <<Sentinel>>
                 /\ SentinelCount(response[r].frames) = 1
            ELSE /\ response[r].frames = FramesOf(upstream[r].chunks)
                 /\ SentinelCount(response[r].frames) = 0

\* a stream of at least two chunks was relayed to its normal end
C1_Witness ==
    \E r \in Reqs :
        /\ StreamTrue(r) /\ Done(r)
        /\ upstream[r].state = "ended"
        /\ Len(upstream[r].chunks) >= 2

-----------------------------------------------------------------------------
(* C2 *)

\* C2: whenever the upstream call of a request raised an error that carries
\* an HTTP status and body, the response to the request has exactly that
\* status and that body, in buffered and in streaming mode.
C2_UpstreamErrorRelayed ==
    \A r \in Reqs :
        (Done(r) /\ upstream[r].error.has_response) =>
            /\ response[r].status = upstream[r].error.status
            /\ response[r].content = upstream[r].error.content

-----------------------------------------------------------------------------
(* C3 *)

\* the handling of r failed, and not by an upstream error carrying a status
FailedWithoutStatus(r) ==
    /\ Done(r)
    /\ upstream[r].state \notin {"returned", "ended"}
    /\ ~upstream[r].error.has_response

\* C3: every failure that is not an upstream error carrying a status is
\* answered by the proxy's own error handler with status 500 and a JSON body
\* {"error": <message>}.
C3_GenericFailureIs500Envelope ==
    \A r \in Reqs :
        FailedWithoutStatus(r) =>
            /\ response[r].by = "except"
            /\ response[r].status = 500
            /\ response[r].media_type = "application/json"
            /\ response[r].content.kind = "error_envelope"

-----------------------------------------------------------------------------
(* C4 *)

\* C4, as stated: an inbound X-Cassette-Name header of any value, the empty
\* string included, is passed to the upstream call with the identical value;
\* without the inbound header the upstream call has no such header.
C4_CassetteHeaderIdentical ==
    \A r \in Reqs :
        \A i \in 1..Len(calls[r]) :
            calls[r][i].extra_headers =
                {h \in request[r].headers : h[1] = "X-Cassette-Name"}

\* C4, amended: an inbound X-Cassette-Name header of a non-empty value is
\* passed to the upstream call with the identical value; when the inbound
\* header is absent or empty the upstream call has no such header.
C4_NonEmptyCassetteHeaderIdentical ==
    \A r \in Reqs :
        \A i \in 1..Len(calls[r]) :
            calls[r][i].extra_headers =
                {h \in request[r].headers :
                    h[1] = "X-Cassette-Name" /\ h[2] # ""}

\* an upstream call was made for a request that carries a cassette name
C4_Witness ==
    \E r \in Reqs :
        /\ Len(calls[r]) = 1
        /\ <<"X-Cassette-Name", "c1">> \in request[r].headers
        /\ calls[r][1].extra_headers = {<<"X-Cassette-Name", "c1">>}

-----------------------------------------------------------------------------
(* C5 *)

\* C5: a non-streaming request whose upstream call succeeded is answered
\* with one buffered JSON body, the JSON text of the upstream result, with
\* status 200 and no event frame or sentinel.
C5_BufferedResultRelayed ==
    \A r \in Reqs :
        (Done(r) /\ ~EventStream(r) /\ upstream[r].state = "returned") =>
            /\ response[r].state = "complete"
            /\ response[r].status = 200
            /\ response[r].media_type = "application/json"
            /\ response[r].content =
                  [kind |-> "json", src |-> r, seq |-> 0, text |-> "result"]
            /\ response[r].frames = <<>>

\* an image-generation request was answered with the upstream result
C5_Witness ==
    \E r \in Reqs :
        /\ Done(r)
        /\ request[r].route = "/v1/images/generations"
        /\ upstream[r].state = "returned"
        /\ response[r].status = 200

-----------------------------------------------------------------------------
(* C6 *)

\* the route table of the specification
ExpectedOperation(route) ==
    CASE route = "/v1/chat/completions" -> "chat.completions.create"
      [] route = "/openai/deployments/{deployment}/chat/completions"
            -> "chat.completions.create"
      [] route = "/v1/completions" -> "completions.create"
      [] route = "/openai/deployments/{deployment}/completions"
            -> "completions.create"
      [] route = "/v1/embeddings" -> "embeddings.create"
      [] route = "/openai/deployments/{deployment}/embeddings"
            -> "embeddings.create"
      [] route = "/v1/images/generations" -> "images.generate"
      [] route = "/openai/deployments/{deployment}/images/generations"
            -> "images.generate"

\* C6: every request with a JSON-object body causes exactly one invocation
\* of the upstream operation of its route, with the body's fields
\* unmodified, and no other invocation.
C6_ExactlyOneUpstreamCall ==
    \A r \in Reqs :
        /\ Len(calls[r]) <= 1
        /\ (Done(r) /\ request[r].body.kind = "object") =>
              /\ Len(calls[r]) = 1
              /\ calls[r][1].op = ExpectedOperation(request[r].route)
              /\ calls[r][1].kwargs = request[r].body

-----------------------------------------------------------------------------
(* C7 *)

\* the model name or the tool-server URL is missing after argument parsing
ArgumentMissing == args.model = None \/ args.mcp_url = None

\* C7: when the model name or the tool-server URL is missing, the runner
\* opens no session to the tool server and makes no model call, and ends
\* with an error.
C7_FailsFastOnMissingArgument ==
    (apc # "parse" /\ ArgumentMissing) =>
        /\ session \notin {"open", "closed"}
        /\ modelCalls = 0
        /\ (exit.done => exit.code # 0)

-----------------------------------------------------------------------------
(* C8 *)

-----------------------------------------------------------------------------
(* C9 *)

\* C9, as stated: the response is in streaming mode if and only if the route
\* is a chat-completions or completions route and the stream field is the
\* boolean true; in every other case no frame is sent and the response is
\* one buffered body.
C9_StreamsIffStreamIsTrue ==
    \A r \in Reqs :
        Arrived(r) =>
            /\ EventStream(r) <=> StreamTrue(r)
            /\ (~StreamTrue(r) /\ Done(r)) =>
                   /\ response[r].frames = <<>>
                   /\ response[r].state = "complete"

\* a chat-completions or completions request whose body is an object with a
\* stream field that Python takes for true: true, a number other than
\* zero, a non-empty string
StreamTruthy(r) ==
    /\ Arrived(r)
    /\ request[r].route \in ChatOrCompletionsRoutes
    /\ request[r].body.kind = "object"
    /\ request[r].body.stream \in {"true", "1", "\"false\""}

\* C9, amended: the response is in streaming mode if and only if the route
\* is a chat-completions or completions route and the stream field of the
\* JSON-object body is truthy (true, a non-zero number, a non-empty string,
\* array or object); when the field is absent, false, null, zero or empty,
\* and on every embeddings and image-generation route, no frame is sent and
\* the response is one buffered body.
C9_StreamsIffStreamIsTruthy ==
    \A r \in Reqs :
        Arrived(r) =>
            /\ EventStream(r) <=> StreamTruthy(r)
            /\ (~StreamTruthy(r) /\ Done(r)) =>
                   /\ response[r].frames = <<>>
                   /\ response[r].state = "complete"

\* a request with "stream": 1 is answered in streaming mode
C9_Witness ==
    \E r \in Reqs :
        /\ Arrived(r)
        /\ request[r].route = "/v1/completions"
        /\ request[r].body.stream = "1"
        /\ EventStream(r)

-----------------------------------------------------------------------------
(* C10 *)

\* everything of request r in the state
Slice(r) == <<pc[r], request[r], calls[r], upstream[r], response[r]>>

\* what the upstream did for r, whichever request it is
Outcome(r) ==
    <<upstream[r].state, Len(upstream[r].chunks),
      upstream[r].error.type, upstream[r].error.status>>

\* what the caller of r was sent, whichever request it is
Answer(r) ==
    <<response[r].state, response[r].by, response[r].status,
      response[r].media_type, response[r].content.kind,
      response[r].headers, Len(response[r].frames),
      [i \in 1..Len(response[r].frames) |-> response[r].frames[i].data.seq],
      [i \in 1..Len(calls[r]) |->
          <<calls[r][i].op, calls[r][i].kwargs, calls[r][i].extra_headers>>]>>

\* nothing of another request appears in the upstream call or the response
\* of r, and requests with the same inputs and the same upstream outcome get
\* the same answer
Isolated ==
    /\ \A r \in Reqs :
          /\ \A i \in 1..Len(calls[r]) :
                /\ calls[r][i].kwargs = request[r].body
                /\ calls[r][i].extra_headers \subseteq request[r].headers
          /\ \A i \in 1..Len(response[r].frames) :
                response[r].frames[i].data.src \in {0, r}
          /\ response[r].content.src \in {0, r}
    /\ \A r1, r2 \in Reqs :
          (Done(r1) /\ Done(r2) /\ request[r1] = request[r2]
              /\ Outcome(r1) = Outcome(r2)) => Answer(r1) = Answer(r2)

\* a step of the handler of one request changes nothing of another request
OwnSliceOnly ==
    \E r \in Reqs : \A q \in Reqs \ {r} : Slice(q)' = Slice(q)

\* C10: under any interleaving of concurrently handled requests, the
\* upstream call and the response of a request depend only on its own body
\* and headers and on the outcome of its own upstream call, and no step of
\* one request's handler changes the state of another request.
C10_RequestsAreIsolated == []Isolated /\ [][OwnSliceOnly]_vars

\* two requests with different cassette headers stream at the same time
C10_Witness ==
    \E r1, r2 \in Reqs :
        /\ r1 # r2
        /\ pc[r1] = "iterating" /\ pc[r2] = "iterating"
        /\ Len(response[r1].frames) >= 1 /\ Len(response[r2].frames) >= 1
        /\ request[r1].headers # request[r2].headers
        /\ Len(calls[r1]) = 1 /\ Len(calls[r2]) = 1

====
